---- MODULE Spec2Model ----
(***************************************************************************)
(* The Sider parameter block (struct siderParms, sider-parm-block.h) and   *)
(* the codec that maps the 256-byte on-disk block to the structure and     *)
(* back.  The field table is taken from the structure declaration: member  *)
(* order, member types, array lengths, and the offset / byte-order / xor   *)
(* annotations of the member comments.  decode and encode are driven by    *)
(* that table.                                                             *)
(***************************************************************************)
EXTENDS Integers, Sequences, FiniteSets, TLC

VARIABLES buffer, block, result, output, pc

vars == <<buffer, block, result, output, pc>>

(***************************************************************************)
(* Bounds of the input family.                                             *)
(***************************************************************************)
MaxLenDelta == 2

FirstBytes == {0, 1, 44, 128, 165, 255}

SecondBytes == {0, 1, 44, 255}

FillSeeds == {0, 7}

(***************************************************************************)
(* Bytes and the xor mask.                                                 *)
(***************************************************************************)
Byte == 0..255

XorMask == 165

RECURSIVE XorBits(_, _, _)
XorBits(a, b, n) ==
    IF n = 0 THEN 0
    ELSE ((a + b) % 2) + 2 * XorBits(a \div 2, b \div 2, n - 1)

Xor8(a, b) == XorBits(a, b, 8)

(***************************************************************************)
(* The field table.  NoOffset marks a member whose comment gives no offset.*)
(***************************************************************************)
NoOffset == -1

Fld(name, type, array, count, endian, masked, at) ==
    [name |-> name, type |-> type, array |-> array, count |-> count,
     endian |-> endian, masked |-> masked, at |-> at]

U8(name, at) == Fld(name, "uint8", FALSE, 1, "none", FALSE, at)

U8xPlain(name, at) == Fld(name, "uint8", FALSE, 1, "none", FALSE, at)

U8x(name, at) == Fld(name, "uint8", FALSE, 1, "none", TRUE, at)

U7(name, at) == Fld(name, "uint7", FALSE, 1, "none", FALSE, at)

BE16Swapped(name, at) == Fld(name, "uint16", FALSE, 1, "little", FALSE, at)

BE16(name, at) == Fld(name, "uint16", FALSE, 1, "big", FALSE, at)

LE16(name, at) == Fld(name, "uint16", FALSE, 1, "little", FALSE, at)

ArrLong(name, count, at) == Fld(name, "uint8", TRUE, count + 1, "none", FALSE, at)

Arr(name, count, at) == Fld(name, "uint8", TRUE, count, "none", FALSE, at)

Chr(name, count, at) == Fld(name, "char", TRUE, count, "none", FALSE, at)

Fields ==
    << U8("dosSmallVolumes", 0),
       U8x("smallVolumesXor", 1),
       U8("interleave", 2),
       Arr("reserved", 1, 3),
       U8("dosVolumes", 4),
       Arr("reserved2", 19, NoOffset),
       U8x("xor3233", 24),
       BE16("cylinders", 25),
       U8("heads", 27),
       BE16("reducedWriteCylinders", 28),
       BE16("precompCylinders", 30),
       U8("maxECCDataBurst", 32),
       U8("controlByte", 33),
       Arr("reserved3", 7, NoOffset),
       Arr("cpmA", 5, 41),
       LE16("cpmAsize", 46),
       Arr("cpmA2", 6, 48),
       LE16("cpmAstart", 54),
       Arr("cpmB", 5, 56),
       LE16("cpmBsize", 61),
       Arr("cpmB2", 6, 63),
       LE16("cpmBstart", 69),
       U8("cpmVol1online", 71),
       U8("cpmVol2online", 72),
       Arr("reserved4", 7, NoOffset),
       U8("pascalUnit1", 80),
       LE16("pascal1Start", 81),
       LE16("pascal2Start", 83),
       Arr("reserved5", 15, NoOffset),
       Chr("installDate", 8, 100),
       Chr("modifiedDate", 8, 108),
       Chr("lastBackupDate", 8, 116),
       Arr("reserved6", 6, NoOffset),
       Arr("cpmC", 5, 130),
       LE16("cpmCsize", 135),
       Arr("cpmC2", 6, 137),
       LE16("cpmCstart", 143),
       Arr("cpmD", 5, 145),
       LE16("cpmDsize", 150),
       Arr("cpmD2", 6, 152),
       LE16("cpmDstart", 158),
       U8("cpmVol3online", 160),
       U7("cpmVol4online", 161),
       Arr("reserved7", 1, NoOffset),
       LE16("prodos1Start", 163),
       LE16("prodos1Size", 165),
       U8("prodosVol1Status", 167),
       LE16("prodos2Start", 168),
       LE16("prodos2Size", 170),
       U8("prodosVol2Status", 172),
       U8("pascalUnit2", 173),
       LE16("pascal3Start", 174),
       LE16("pascal4Start", 176),
       Arr("reserved8", 77, NoOffset),
       U8("altTracksAvail", 255) >>

NumFields == Len(Fields)

FieldIdx == 1..NumFields

FieldNames == {Fields[k].name : k \in FieldIdx}

ReservedNamesNumbered ==
    {"reserved2", "reserved3", "reserved4", "reserved5", "reserved6",
     "reserved7", "reserved8"}

ReservedNames ==
    {"reserved", "reserved2", "reserved3", "reserved4", "reserved5",
     "reserved6", "reserved7", "reserved8"}

IsReserved(k) == Fields[k].name \in ReservedNames

(***************************************************************************)
(* Layout: members are laid out in declaration order, each with the size   *)
(* of its type times its array length.                                     *)
(***************************************************************************)
TypeWidthWide7(type) ==
    CASE type = "uint8" -> 1
      [] type = "uint7" -> 2
      [] type = "char" -> 1
      [] type = "uint16" -> 2

TypeWidthNarrow16(type) ==
    CASE type = "uint8" -> 1
      [] type = "uint7" -> 1
      [] type = "char" -> 1
      [] type = "uint16" -> 1

TypeWidth(type) ==
    CASE type = "uint8" -> 1
      [] type = "uint7" -> 1
      [] type = "char" -> 1
      [] type = "uint16" -> 2

ByteLen(k) == TypeWidth(Fields[k].type) * Fields[k].count

RECURSIVE EndOffset(_)
EndOffset(k) == IF k = 0 THEN 0 ELSE EndOffset(k - 1) + ByteLen(k)

Offsets == [k \in FieldIdx |-> EndOffset(k - 1)]

Widths == [k \in FieldIdx |-> ByteLen(k)]

BlockSize == EndOffset(NumFields)

FieldRange(k) == Offsets[k]..(Offsets[k] + Widths[k] - 1)

IdxOf(name) == CHOOSE k \in FieldIdx : Fields[k].name = name

NameIdx == [n \in FieldNames |-> IdxOf(n)]

(***************************************************************************)
(* Field codecs.  A scalar keeps the bits of its type; a 16-bit member is  *)
(* read in the byte order of its comment; a member annotated "xor 0xA5"    *)
(* is unmasked on decode and masked again on encode; an array member is    *)
(* copied byte for byte.                                                   *)
(***************************************************************************)
TypeBits(type) ==
    CASE type = "uint8" -> 8
      [] type = "uint7" -> 8
      [] type = "char" -> 8
      [] type = "uint16" -> 16

Slice(buf, k) == SubSeq(buf, Offsets[k] + 1, Offsets[k] + Widths[k])

Read16(endian, bytes) ==
    IF endian = "big" THEN 256 * bytes[1] + bytes[2]
    ELSE bytes[1] + 256 * bytes[2]

Write16(endian, v) ==
    IF endian = "big" THEN << v \div 256, v % 256 >>
    ELSE << v % 256, v \div 256 >>

Unmask(f, v) == IF f.masked THEN Xor8(v, XorMask) ELSE v

DecodeField(k, bytes) ==
    LET f == Fields[k] IN
    IF f.array THEN bytes
    ELSE IF f.type = "uint16"
         THEN Read16(f.endian, bytes) % (2 ^ TypeBits(f.type))
         ELSE Unmask(f, bytes[1] % (2 ^ TypeBits(f.type)))

EncodeField(k, v) ==
    LET f == Fields[k] IN
    IF f.array THEN v
    ELSE IF f.type = "uint16" THEN Write16(f.endian, v)
         ELSE << Unmask(f, v) >>

NoBlock == << >>

decode(buf) == [n \in FieldNames |-> DecodeField(NameIdx[n], Slice(buf, NameIdx[n]))]

RECURSIVE EncodeFrom(_, _)
EncodeFrom(blk, k) ==
    IF k > NumFields THEN << >>
    ELSE EncodeField(k, blk[Fields[k].name]) \o EncodeFrom(blk, k + 1)

encode(blk) == EncodeFrom(blk, 1)

(***************************************************************************)
(* Inputs.  The background of a buffer is all zero (seed 0) or a ramp      *)
(* (seed * index mod 256).  A block-sized buffer differs from its          *)
(* background in two adjacent positions drawn from sample bytes, or in one *)
(* position, that of a single-byte scalar member, which takes every byte   *)
(* value.  Buffers of other lengths are plain backgrounds.                 *)
(***************************************************************************)
Background(i, seed) == (seed * i) % 256

Pattern2(len, pos, v1, v2, seed) ==
    [i \in 1..len |-> IF i = pos + 1 THEN v1
                      ELSE IF i = pos + 2 THEN v2 ELSE Background(i, seed)]

Pattern1(len, pos, v1, seed) ==
    [i \in 1..len |-> IF i = pos + 1 THEN v1 ELSE Background(i, seed)]

ScalarByteOffsets ==
    {Offsets[k] : k \in {j \in FieldIdx : ~Fields[j].array /\ Widths[j] = 1}}

OtherLengths ==
    {0} \cup (((BlockSize - MaxLenDelta)..(BlockSize + MaxLenDelta)) \ {BlockSize})

InitBuffer ==
    \/ \E pos \in 0..(BlockSize - 1), v1 \in FirstBytes, v2 \in SecondBytes, seed \in FillSeeds :
          buffer = Pattern2(BlockSize, pos, v1, v2, seed)
    \/ \E pos \in ScalarByteOffsets, v1 \in Byte, seed \in FillSeeds :
          buffer = Pattern1(BlockSize, pos, v1, seed)
    \/ \E len \in OtherLengths, seed \in FillSeeds :
          buffer = Pattern1(len, len, 0, seed)

Init ==
    /\ InitBuffer
    /\ block = NoBlock
    /\ result = "none"
    /\ output = << >>
    /\ pc = "input"

(***************************************************************************)
(* decode(buffer): LengthError unless the buffer has the size of the       *)
(* block, otherwise the whole record in one pass.                          *)
(***************************************************************************)
Decode ==
    /\ pc = "input"
    /\ IF Len(buffer) = BlockSize
       THEN /\ block' = decode(buffer)
            /\ result' = "ok"
       ELSE /\ block' = NoBlock
            /\ result' = "LengthError"
    /\ pc' = "decoded"
    /\ UNCHANGED <<buffer, output>>

(***************************************************************************)
(* encode(block): every member written back in declaration order.          *)
(***************************************************************************)
Encode ==
    /\ pc = "decoded"
    /\ result = "ok"
    /\ output' = encode(block)
    /\ pc' = "encoded"
    /\ UNCHANGED <<buffer, block, result>>

Next == Decode \/ Encode

Spec == Init /\ [][Next]_vars

(***************************************************************************)
(* Properties.                                                             *)
(***************************************************************************)
Decoded == pc \in {"decoded", "encoded"} /\ result = "ok"

Encoded == pc = "encoded"

At(buf, o) == buf[o + 1]

Region(buf, name) == Slice(buf, NameIdx[name])

\* C1: round trip.  Every 256-byte buffer decodes, and encoding the decoded
\* block gives the buffer back byte for byte, byte 161 (uint7 cpmVol4online)
\* included.
RoundTrip ==
    /\ (Len(buffer) = 256 /\ pc # "input") => result = "ok"
    /\ Encoded => /\ Len(output) = Len(buffer)
                  /\ \A i \in 1..Len(buffer) : output[i] = buffer[i]

RoundTripWitness ==
    /\ Encoded
    /\ Len(buffer) = 256
    /\ At(buffer, 161) = 255
    /\ output = buffer

\* C2: the field table tiles the block.  In declaration order with the
\* declared widths every member has a fixed byte range, every offset 0..255
\* lies in exactly one range, every member starts at the offset of its
\* comment, altTracksAvail is byte 255 and the size is 256; decode consumes
\* 256 bytes and encode produces 256 bytes.
FieldsAt(o) == {k \in FieldIdx : o \in FieldRange(k)}

TableLayout ==
    /\ BlockSize = 256
    /\ \A k \in FieldIdx :
          /\ Widths[k] = (IF Fields[k].type = "uint16" THEN 2 ELSE 1) * Fields[k].count
          /\ Widths[k] >= 1
          /\ FieldRange(k) \subseteq 0..255
          /\ Fields[k].at # NoOffset => Offsets[k] = Fields[k].at
    /\ \A o \in 0..255 : Cardinality(FieldsAt(o)) = 1
    /\ \A j, k \in FieldIdx : j # k => FieldRange(j) \cap FieldRange(k) = {}
    /\ Widths[NameIdx["cpmVol4online"]] = 1
    /\ FieldRange(NameIdx["altTracksAvail"]) = {255}
    /\ Fields[NumFields].name = "altTracksAvail"

TableTiles ==
    /\ TableLayout
    /\ Decoded => Len(buffer) = 256
    /\ Encoded => Len(output) = 256

TableTilesWitness ==
    /\ Encoded
    /\ Len(output) = 256
    /\ At(buffer, 255) = 128
    /\ block["altTracksAvail"] = 128
    /\ At(output, 255) = 128

\* C3: decode fails with LengthError exactly when the buffer is not 256
\* bytes long, and then yields no block; every 256-byte buffer, whatever its
\* content, decodes to a fully populated block.
WellFormed(k, v) ==
    IF Fields[k].array
    THEN /\ DOMAIN v = 1..Widths[k]
         /\ \A i \in 1..Widths[k] : v[i] \in Byte
    ELSE v \in 0..((2 ^ (8 * Widths[k])) - 1)

LengthEnforcement ==
    pc # "input" =>
       /\ (result = "LengthError") <=> (Len(buffer) # 256)
       /\ (result = "ok") <=> (Len(buffer) = 256)
       /\ result = "LengthError" => block = NoBlock /\ output = << >> /\ pc = "decoded"
       /\ result = "ok" =>
             /\ DOMAIN block = FieldNames
             /\ \A k \in FieldIdx : WellFormed(k, block[Fields[k].name])

LengthEnforcementWitness ==
    /\ pc = "decoded"
    /\ Len(buffer) = 257
    /\ result = "LengthError"
    /\ block = NoBlock

\* C4: endianness.  cylinders (25-26), reducedWriteCylinders (28-29) and
\* precompCylinders (30-31) decode as 256*first + second; every partition
\* size/start member decodes as first + 256*second; encode writes every one
\* of them back in the same byte order.
BigEndianMembers ==
    { [name |-> "cylinders", at |-> 25],
      [name |-> "reducedWriteCylinders", at |-> 28],
      [name |-> "precompCylinders", at |-> 30] }

LittleEndianNames ==
    {"cpmAsize", "cpmAstart", "cpmBsize", "cpmBstart",
     "cpmCsize", "cpmCstart", "cpmDsize", "cpmDstart",
     "pascal1Start", "pascal2Start", "pascal3Start", "pascal4Start",
     "prodos1Start", "prodos1Size", "prodos2Start", "prodos2Size"}

EndianFidelity ==
    /\ Decoded =>
          /\ \A m \in BigEndianMembers :
                block[m.name] = 256 * At(buffer, m.at) + At(buffer, m.at + 1)
          /\ \A n \in LittleEndianNames :
                LET o == Offsets[NameIdx[n]] IN
                block[n] = At(buffer, o) + 256 * At(buffer, o + 1)
          /\ (At(buffer, 25) = 1 /\ At(buffer, 26) = 44) => block["cylinders"] = 300
          /\ (At(buffer, 46) = 44 /\ At(buffer, 47) = 1) => block["cpmAsize"] = 300
    /\ Encoded =>
          /\ \A m \in BigEndianMembers :
                /\ At(output, m.at) = block[m.name] \div 256
                /\ At(output, m.at + 1) = block[m.name] % 256
          /\ \A n \in LittleEndianNames :
                LET o == Offsets[NameIdx[n]] IN
                /\ At(output, o) = block[n] % 256
                /\ At(output, o + 1) = block[n] \div 256

EndianFidelityWitness ==
    /\ Encoded
    /\ At(buffer, 25) = 1
    /\ At(buffer, 26) = 44
    /\ block["cylinders"] = 300
    /\ At(output, 25) = 1
    /\ At(buffer, 46) # At(buffer, 47)
    /\ block["cpmAsize"] = At(buffer, 46) + 256 * At(buffer, 47)

\* C5: mask fidelity.  Exactly smallVolumesXor (offset 1) and xor3233
\* (offset 24) are obfuscated: decode yields stored XOR 0xA5 and encode
\* writes logical XOR 0xA5; every other single-byte member is decoded and
\* encoded as stored.
MaskedOffsets == {1, 24}

SingleByteMembers == {k \in FieldIdx : ~Fields[k].array /\ Widths[k] = 1}

MaskFidelity ==
    /\ Decoded =>
          /\ {Offsets[k] : k \in {j \in FieldIdx : Fields[j].masked}} = MaskedOffsets
          /\ block["smallVolumesXor"] = Xor8(At(buffer, 1), 165)
          /\ block["xor3233"] = Xor8(At(buffer, 24), 165)
          /\ At(buffer, 1) = 165 => block["smallVolumesXor"] = 0
          /\ At(buffer, 24) = 165 => block["xor3233"] = 0
          /\ At(buffer, 1) = 164 => block["smallVolumesXor"] = 1
          /\ At(buffer, 24) = 90 => block["xor3233"] = 255
          /\ \A k \in SingleByteMembers :
                Offsets[k] \notin MaskedOffsets =>
                   block[Fields[k].name] = At(buffer, Offsets[k])
    /\ Encoded =>
          /\ At(output, 1) = Xor8(block["smallVolumesXor"], 165)
          /\ At(output, 24) = Xor8(block["xor3233"], 165)
          /\ block["smallVolumesXor"] = 0 => At(output, 1) = 165
          /\ block["xor3233"] = 0 => At(output, 24) = 165
          /\ \A k \in SingleByteMembers :
                Offsets[k] \notin MaskedOffsets =>
                   At(output, Offsets[k]) = block[Fields[k].name]

MaskFidelityWitness ==
    /\ Encoded
    /\ At(buffer, 24) = 165
    /\ block["xor3233"] = 0
    /\ At(output, 24) = 165

\* C6: reserved-byte opacity.  Every reserved region is decoded verbatim into
\* an opaque member of the declared length and encoded back unchanged,
\* whatever the other members hold.
ReservedLength ==
    [n \in ReservedNames |->
        CASE n = "reserved" -> 1
          [] n = "reserved2" -> 19
          [] n = "reserved3" -> 7
          [] n = "reserved4" -> 7
          [] n = "reserved5" -> 15
          [] n = "reserved6" -> 6
          [] n = "reserved7" -> 1
          [] n = "reserved8" -> 77]

ReservedOpacity ==
    /\ Decoded =>
          \A n \in ReservedNames :
             /\ Len(block[n]) = ReservedLength[n]
             /\ block[n] = Region(buffer, n)
    /\ Encoded =>
          \A n \in ReservedNames : Region(output, n) = Region(buffer, n)

ReservedOpacityWitness ==
    /\ Encoded
    /\ \A i \in 1..19 : block["reserved2"][i] # 0
    /\ block["smallVolumesXor"] = 0
    /\ Region(output, "reserved2") = Region(buffer, "reserved2")

\* C7: the all-zero block.  The buffer of 256 zero bytes decodes to a block
\* whose plain integer members are 0, whose xor-masked flag bytes are 0xA5,
\* whose date members are 8 null bytes (every byte-array member is all
\* zero); encoding that block gives the all-zero buffer back.
ZeroBuffer == [i \in 1..256 |-> 0]

DateNames == {"installDate", "modifiedDate", "lastBackupDate"}

ReservedBytes == UNION {FieldRange(k) : k \in {j \in FieldIdx : IsReserved(j)}}

ReservedRunStarts == {o \in ReservedBytes : (o - 1) \notin ReservedBytes}

OpaqueReserved(blk) == {n \in DOMAIN blk : n \in ReservedNames}

EightReservedRegions ==
    /\ Cardinality(ReservedRunStarts) = 8
    /\ ReservedRunStarts = {Offsets[k] : k \in {j \in FieldIdx : IsReserved(j)}}
    /\ Decoded =>
          /\ Cardinality(OpaqueReserved(block)) = 8
          /\ \A n \in OpaqueReserved(block) : Len(block[n]) = Widths[NameIdx[n]]

EightReservedRegionsWitness ==
    /\ pc = "decoded"
    /\ result = "ok"
    /\ Len(block["reserved8"]) = 77
    /\ block["reserved8"][77] = 255

\* C8 (as stated): nine reserved regions.
NineReservedRegions ==
    Decoded =>
       /\ Cardinality(ReservedRunStarts) = 9
       /\ Cardinality(OpaqueReserved(block)) = 9

\* C9 (as amended): xor3233 is the xor-masked byte at offset 24; cylinders,
\* heads, reducedWriteCylinders, precompCylinders, maxECCDataBurst and
\* controlByte follow it and fill offsets 25-33 exactly; interleave is the
\* byte at offset 2, outside that cluster.
GeometryNames ==
    {"cylinders", "heads", "reducedWriteCylinders", "precompCylinders",
     "maxECCDataBurst", "controlByte"}

RangeOf(names) == UNION {FieldRange(NameIdx[n]) : n \in names}

GeometryPlacement ==
    /\ FieldRange(NameIdx["xor3233"]) = {24}
    /\ Fields[NameIdx["xor3233"]].masked
    /\ RangeOf(GeometryNames) = 25..33
    /\ FieldRange(NameIdx["interleave"]) = {2}
    /\ Decoded =>
          /\ block["interleave"] = At(buffer, 2)
          /\ block["heads"] = At(buffer, 27)
          /\ block["maxECCDataBurst"] = At(buffer, 32)
          /\ block["controlByte"] = At(buffer, 33)

GeometryPlacementWitness ==
    /\ pc = "decoded"
    /\ result = "ok"
    /\ At(buffer, 2) = 44
    /\ block["interleave"] = 44
    /\ block["controlByte"] = At(buffer, 33)
    /\ At(buffer, 33) # 44

\* C9 (as stated): interleave and the other geometry members all lie within
\* offsets 24-33.
GeometryAllIn24To33 ==
    Decoded => RangeOf(GeometryNames \cup {"interleave", "xor3233"}) \subseteq 24..33

\* C10: cpmVol4online (declared uint7) is a full byte at offset 161: the
\* decoded value is the stored byte, so the 256 stored values decode to 256
\* distinct values, encode writes the same byte back, and reserved7 stays at
\* 162 and prodos1Start at 163-164.
Uint7IsByte ==
    /\ FieldRange(NameIdx["cpmVol4online"]) = {161}
    /\ FieldRange(NameIdx["reserved7"]) = {162}
    /\ FieldRange(NameIdx["prodos1Start"]) = {163, 164}
    /\ (Len(buffer) = 256 /\ pc # "input") => Decoded
    /\ Decoded => block["cpmVol4online"] = At(buffer, 161)
    /\ Encoded => At(output, 161) = At(buffer, 161)

Uint7IsByteWitness ==
    /\ Encoded
    /\ At(buffer, 161) = 200
    /\ block["cpmVol4online"] = 200
    /\ At(output, 161) = 200

====
